---- MODULE Spec2Model ----
(***************************************************************************)
(* Email ingestion (app/api/fetch-newsletter-emails/route.ts, GET),        *)
(* newsletter dispatch (sendNewsletter / sendEmail) and the newsletter     *)
(* form (handleSendNewsletter of NewsletterCreation) of SyncUp.            *)
(***************************************************************************)
EXTENDS Integers, Sequences, FiniteSets, TLC

(***************************************************************************)
(* Bounds of the model.                                                    *)
(***************************************************************************)
MaxRecipients == 3
MaxMsgs == 2       \* messages per folder
NumCycles == 2     \* invocations of GET, possibly concurrent
MaxLoad == 4       \* work of a run: Load(invocations, messages + old files)
MaxTime == 2       \* milliseconds the clock can advance
MaxEntries == 2    \* entries of a from or to header
MaxEvents == 2     \* events selected in the form
MaxCombined == 4   \* selected users plus members of the selected events
MaxChecks == 3     \* runs of the permission effect of a component

(***************************************************************************)
(* Input domains.  The empty string stands for an empty or absent address. *)
(***************************************************************************)
Addresses == {"", "a@x.org", "A@x.org", "b@x.org"}

RECURSIVE SeqsUpTo(_, _)
SeqsUpTo(S, n) ==
  IF n = 0 THEN {<<>>}
  ELSE LET shorter == SeqsUpTo(S, n - 1)
       IN  shorter \cup {Append(s, x) : s \in {t \in shorter : Len(t) = n - 1}, x \in S}

Range(s) == {s[i] : i \in DOMAIN s}

\* the work n overlapping invocations have with a store and a directory of
\* the given number of items: the items, once per order in which the
\* invocations can come to them
RECURSIVE Orders(_)
Orders(n) == IF n <= 1 THEN 1 ELSE n * Orders(n - 1)

Load(n, items) == Orders(n) * items

(***************************************************************************)
(* Dispatch state (sendNewsletter).                                        *)
(***************************************************************************)
VARIABLES
  allUsers,      \* the User[] argument: records [id, email]
  uniqueUsers,   \* allUsers after the first-occurrence filter
  dpc,           \* position of sendNewsletter: "idle", "awaiting", "returned"
  task,          \* state of the promise of each element of uniqueUsers
  submitted,     \* addresses handed to resend.emails.send, in call order
  rows,          \* rows inserted into the "emails" table
  successCount,
  failures,      \* sequence of [email, reason]
  sendOutcome,   \* answer of the submission service per task ("none": not answered)
  insertOutcome, \* answer of the store per task ("none": not answered)
  dresult        \* what sendNewsletter handed to its caller

(***************************************************************************)
(* Ingestion state.                                                        *)
(***************************************************************************)
VARIABLES
  store,                  \* the remote mailbox: folder name -> messages
  cyc,                    \* one record per invocation of GET
  now,                    \* Date.now()
  dirExists,              \* the attachments directory exists
  files,                  \* names of the files in the attachments directory
  downloadedAttachments   \* the process-wide Set of written filenames

ivars == <<store, cyc, now, dirExists, files, downloadedAttachments>>

(***************************************************************************)
(* State of the newsletter form (NewsletterCreation).                      *)
(***************************************************************************)
VARIABLES
  selectedUsers,   \* rows selected in the users table: records [email]
  selectedEvents,  \* rows selected in the events table
  formValid,       \* newsletterSchema accepts subject and content
  fpc,             \* position of handleSendNewsletter: "idle", "members", "post", "done"
  sending,         \* the sending flag
  memberResults,   \* the members fetchMembersByEvent finds per selected event
  recipients,      \* the "recipients" field of the posted form
  alert            \* the dialog shown last

(***************************************************************************)
(* State of the permission gate of the components Emails and               *)
(* NewsletterCreation, which are rendered side by side with the same user   *)
(* and organization.                                                       *)
(***************************************************************************)
VARIABLES
  pair,                \* the current [user, org]: useUser().user?.id and organizationId
  hasPermission,       \* the hasPermission flag of each component
  checkingPermission,  \* the checkingPermission flag of Emails
  checks,              \* per component, the runs of its effect: [pair, status]
  settled              \* per component, the outcome of the check that settled last

pvars == <<pair, hasPermission, checkingPermission, checks, settled>>

svars == <<selectedUsers, selectedEvents, formValid, fpc, sending, memberResults,
           recipients, alert>>

fvars == <<svars, pvars>>

dvars == <<allUsers, uniqueUsers, dpc, task, submitted, rows, successCount,
           failures, sendOutcome, insertOutcome, dresult>>

vars == <<dvars, ivars, fvars>>

\* Answers of resend.emails.send: a response carrying data, the sandbox
\* error, another provider error, a response with neither data nor error,
\* or a rejected promise.
SendResponses == {"data", "sandbox", "error", "empty", "throw"}

\* Answers of supabase.from("emails").insert: success, an insertError, or a
\* rejected promise.
InsertResponses == {"ok", "error", "throw"}

SandboxMessage == "You can only send emails to the account bound to the Resend API Free Plan."
UnknownMessage == "Unknown error sending email"

\* self.findIndex((t) => t.email === user.email)
FindIndex(self, email) ==
  CHOOSE j \in DOMAIN self :
    /\ self[j].email = email
    /\ \A k \in DOMAIN self : self[k].email = email => j <= k

\* allUsers.filter((user, index, self) => index === self.findIndex(...))
RECURSIVE FilterFirst(_, _)
FilterFirst(self, index) ==
  IF index > Len(self) THEN <<>>
  ELSE IF index = FindIndex(self, self[index].email)
       THEN <<self[index]>> \o FilterFirst(self, index + 1)
       ELSE FilterFirst(self, index + 1)

UniqueUsersNoFilter(users) == users

UniqueUsers(users) == FilterFirst(users, 1)

\* if (user && user.email): an empty address is falsy, the task body is skipped
HasEmailAlways(user) == TRUE

HasEmail(user) == user.email # ""

\* sendEmail: the sandbox error is turned into a thrown Error, a rejected
\* promise is re-thrown, anything else is returned to sendNewsletter.
\* Result: thrown with the message of the Error, or not thrown with the
\* response in the message field.
SendEmailSandboxReturned(resp) ==
  IF resp = "throw" THEN [thrown |-> TRUE, message |-> "send rejected"]
  ELSE [thrown |-> FALSE, message |-> resp]

SendEmail(resp) ==
  IF resp = "throw" THEN [thrown |-> TRUE, message |-> "send rejected"]
  ELSE IF resp = "sandbox" THEN [thrown |-> TRUE, message |-> SandboxMessage]
  ELSE [thrown |-> FALSE, message |-> resp]

\* emailResponse?.error?.message || "Unknown error sending email"
ResponseErrorMessage(resp) ==
  IF resp = "error" THEN "provider error" ELSE UnknownMessage

\* if (emailResponse && emailResponse.data)
ResponseOkTruthy(resp) == TRUE

ResponseOkUnlessError(resp) == resp # "error"

ResponseOk(resp) == resp = "data"

\* catch (emailError) around the body of one task: every error is caught
TaskCatchesNotInsert(message) == message # "insert error"

TaskCatches(message) == TRUE

\* await Promise.all(promises): settles when every promise is fulfilled, or
\* as soon as one is rejected
PromiseAllNotAwaited(t) == TRUE

PromiseAllSettled(t) ==
  \/ \A i \in DOMAIN t : t[i] = "fulfilled"
  \/ \E i \in DOMAIN t : t[i] = "rejected"

PromiseAllRejected(t) == \E i \in DOMAIN t : t[i] = "rejected"

\* sendNewsletter not yet called with the given argument
DIdle(users) ==
  /\ allUsers = users
  /\ uniqueUsers = <<>>
  /\ dpc = "idle"
  /\ task = <<>>
  /\ submitted = <<>>
  /\ rows = <<>>
  /\ successCount = 0
  /\ failures = <<>>
  /\ sendOutcome = <<>>
  /\ insertOutcome = <<>>
  /\ dresult = [kind |-> "none"]

\* The synchronous part of sendNewsletter: the filter, then map() runs every
\* task up to its first await, which is the call of resend.emails.send.
SendNewsletter ==
  /\ dpc = "idle"
  /\ LET u == UniqueUsers(allUsers)
         withEmail == SelectSeq(u, HasEmail)
     IN  /\ uniqueUsers' = u
         /\ task' = [i \in DOMAIN u |->
                       IF HasEmail(u[i]) THEN "awaitSend" ELSE "fulfilled"]
         /\ submitted' = [i \in DOMAIN withEmail |-> withEmail[i].email]
         /\ sendOutcome' = [i \in DOMAIN u |-> "none"]
         /\ insertOutcome' = [i \in DOMAIN u |-> "none"]
  /\ successCount' = 0
  /\ failures' = <<>>
  /\ dpc' = "awaiting"
  /\ UNCHANGED <<allUsers, rows, dresult>>
  /\ UNCHANGED <<ivars, fvars>>

\* The error path of one task: failures.push in the catch block, or a
\* rejected task promise if the error escapes.
TaskFailsOverwrites(i, message) ==
  /\ failures' = <<[email |-> uniqueUsers[i].email, reason |-> message]>>
  /\ task' = [task EXCEPT ![i] = "fulfilled"]

TaskFailsRethrow(i, message) ==
  /\ failures' = Append(failures, [email |-> uniqueUsers[i].email, reason |-> message])
  /\ task' = [task EXCEPT ![i] = "rejected"]

TaskFails(i, message) ==
  IF TaskCatches(message)
  THEN /\ failures' = Append(failures, [email |-> uniqueUsers[i].email, reason |-> message])
       /\ task' = [task EXCEPT ![i] = "fulfilled"]
  ELSE /\ failures' = failures
       /\ task' = [task EXCEPT ![i] = "rejected"]

\* resend.emails.send answers for task i; the task runs up to its next await
\* (the insert) or to its end.
SendResolve(i, resp) ==
  /\ dpc \in {"awaiting", "returned"}
  /\ i \in DOMAIN task
  /\ task[i] = "awaitSend"
  /\ sendOutcome' = [sendOutcome EXCEPT ![i] = resp]
  /\ LET r == SendEmail(resp)
     IN  IF r.thrown
         THEN TaskFails(i, r.message)
         ELSE IF ResponseOk(r.message)
              THEN /\ task' = [task EXCEPT ![i] = "awaitInsert"]
                   /\ failures' = failures
              ELSE TaskFails(i, ResponseErrorMessage(r.message))
  /\ UNCHANGED <<allUsers, uniqueUsers, dpc, submitted, rows, successCount,
                 insertOutcome, dresult>>
  /\ UNCHANGED <<ivars, fvars>>

\* the insert of the "emails" row answers for task i
InsertResolveIgnoresError(i, resp) ==
  /\ dpc \in {"awaiting", "returned"}
  /\ i \in DOMAIN task
  /\ task[i] = "awaitInsert"
  /\ insertOutcome' = [insertOutcome EXCEPT ![i] = resp]
  /\ IF resp \in {"ok", "error"}
     THEN /\ rows' = IF resp = "ok"
                     THEN Append(rows, [receiver_id |-> uniqueUsers[i].id,
                                        receiver |-> uniqueUsers[i].email,
                                        status |-> "Sent"])
                     ELSE rows
          /\ successCount' = successCount + 1
          /\ task' = [task EXCEPT ![i] = "fulfilled"]
          /\ failures' = failures
     ELSE /\ rows' = rows
          /\ successCount' = successCount
          /\ TaskFails(i, "insert rejected")
  /\ UNCHANGED <<allUsers, uniqueUsers, dpc, submitted, sendOutcome, dresult>>
  /\ UNCHANGED <<ivars, fvars>>

InsertResolve(i, resp) ==
  /\ dpc \in {"awaiting", "returned"}
  /\ i \in DOMAIN task
  /\ task[i] = "awaitInsert"
  /\ insertOutcome' = [insertOutcome EXCEPT ![i] = resp]
  /\ IF resp = "ok"
     THEN /\ rows' = Append(rows, [receiver_id |-> uniqueUsers[i].id,
                                   receiver |-> uniqueUsers[i].email,
                                   status |-> "Sent"])
          /\ successCount' = successCount + 1
          /\ task' = [task EXCEPT ![i] = "fulfilled"]
          /\ failures' = failures
     ELSE /\ rows' = rows
          /\ successCount' = successCount
          /\ TaskFails(i, IF resp = "error" THEN "insert error" ELSE "insert rejected")
  /\ UNCHANGED <<allUsers, uniqueUsers, dpc, submitted, sendOutcome, dresult>>
  /\ UNCHANGED <<ivars, fvars>>

\* await Promise.all(promises) settles; sendNewsletter returns the summary
\* or, if Promise.all rejected, raises.
DispatchReturn ==
  /\ dpc = "awaiting"
  /\ PromiseAllSettled(task)
  /\ dresult' = IF PromiseAllRejected(task)
                THEN [kind |-> "raised"]
                ELSE [kind |-> "summary", successCount |-> successCount,
                      failures |-> failures]
  /\ dpc' = "returned"
  /\ UNCHANGED <<allUsers, uniqueUsers, task, submitted, rows, successCount,
                 failures, sendOutcome, insertOutcome>>
  /\ UNCHANGED <<ivars, fvars>>

DNext ==
  \/ SendNewsletter
  \/ \E i \in 1..MaxRecipients, resp \in SendResponses : SendResolve(i, resp)
  \/ \E i \in 1..MaxRecipients, resp \in InsertResponses : InsertResolve(i, resp)
  \/ DispatchReturn

(***************************************************************************)
(* Ingestion (GET of app/api/fetch-newsletter-emails/route.ts).            *)
(* Text is a sequence of tokens; a token is a run of characters.           *)
(***************************************************************************)

\* String.prototype.includes
Includes(s, sub) ==
  \E i \in 0..(Len(s) - Len(sub)) : SubSeq(s, i + 1, i + Len(sub)) = sub

\* searchParams.get: null when the parameter is absent, else its text
NullParam == [present |-> FALSE, value |-> <<>>]
TextParam(v) == [present |-> TRUE, value |-> v]

\* !param : null and the empty string are falsy
Falsy(param) == ~param.present \/ param.value = <<>>

\* if (!organizationName || !organizationSlug)
ParamsMissingBoth(name, slug) == Falsy(name) /\ Falsy(slug)

ParamsMissing(name, slug) == Falsy(name) \/ Falsy(slug)

\* const mailboxes = ["INBOX", "[Gmail]/Sent Mail"]
mailboxesSentFirst == <<"[Gmail]/Sent Mail", "INBOX">>

mailboxes == <<"INBOX", "[Gmail]/Sent Mail">>

\* path.basename: the part after the last separator, trailing separators
\* dropped
RECURSIVE Basename(_)
Basename(s) ==
  IF s = <<>> THEN <<>>
  ELSE IF s[Len(s)] = "/" THEN Basename(SubSeq(s, 1, Len(s) - 1))
  ELSE IF \E i \in DOMAIN s : s[i] = "/"
       THEN LET last == CHOOSE i \in DOMAIN s :
                          s[i] = "/" /\ \A k \in DOMAIN s : s[k] = "/" => k <= i
            IN  SubSeq(s, last + 1, Len(s))
       ELSE s

\* attachment.filename || `attachment-${index}` (index counts from 0)
OriginalFilename(attachment, index) ==
  IF attachment.filename # <<>> THEN attachment.filename
  ELSE <<"attachment-", ToString(index)>>

\* `${res.attributes.uid}-${Date.now()}-${originalFilename}`
UniqueFilename(uid, t, originalFilename) ==
  <<ToString(uid), "-", ToString(t), "-">> \o originalFilename

SanitizedFilename(uid, t, attachment, index) ==
  Basename(UniqueFilename(uid, t, OriginalFilename(attachment, index)))

\* the relevance check of one parsed message
IsRelevantAnyCase(mailbox, parsedEmail, organizationName, organizationSlug) ==
  LET Lower(s) == [i \in DOMAIN s |->
                     IF s[i] = "Acme" THEN "acme"
                     ELSE IF s[i] = " Robotics" THEN " robotics" ELSE s[i]]
  IN  IF mailbox = "[Gmail]/Sent Mail"
      THEN /\ parsedEmail.from.present
           /\ \E i \in DOMAIN parsedEmail.from.value :
                /\ parsedEmail.from.value[i].name # <<>>
                /\ Includes(Lower(parsedEmail.from.value[i].name),
                            Lower(organizationName))
      ELSE IF mailbox = "INBOX"
      THEN /\ parsedEmail.to.kind # "none"
           /\ \E i \in DOMAIN parsedEmail.to.objs :
                /\ parsedEmail.to.objs[i].text # <<>>
                /\ Includes(parsedEmail.to.objs[i].text,
                            <<"+">> \o organizationSlug \o <<"@", "gmail.com">>)
      ELSE FALSE

IsRelevantAnyDomain(mailbox, parsedEmail, organizationName, organizationSlug) ==
  IF mailbox = "[Gmail]/Sent Mail"
  THEN /\ parsedEmail.from.present
       /\ \E i \in DOMAIN parsedEmail.from.value :
            /\ parsedEmail.from.value[i].name # <<>>
            /\ Includes(parsedEmail.from.value[i].name, organizationName)
  ELSE IF mailbox = "INBOX"
  THEN /\ parsedEmail.to.kind # "none"
       /\ \E i \in DOMAIN parsedEmail.to.objs :
            /\ parsedEmail.to.objs[i].text # <<>>
            /\ Includes(parsedEmail.to.objs[i].text,
                        <<"+">> \o organizationSlug \o <<"@">>)
  ELSE FALSE

IsRelevant(mailbox, parsedEmail, organizationName, organizationSlug) ==
  IF mailbox = "[Gmail]/Sent Mail"
  THEN /\ parsedEmail.from.present
       /\ \E i \in DOMAIN parsedEmail.from.value :
            /\ parsedEmail.from.value[i].name # <<>>
            /\ Includes(parsedEmail.from.value[i].name, organizationName)
  ELSE IF mailbox = "INBOX"
  THEN /\ parsedEmail.to.kind # "none"
       /\ \E i \in DOMAIN parsedEmail.to.objs :
            /\ parsedEmail.to.objs[i].text # <<>>
            /\ Includes(parsedEmail.to.objs[i].text,
                        <<"+">> \o organizationSlug \o <<"@", "gmail.com">>)
  ELSE FALSE

\* `${addr.name} <${addr.address}>`
AddrString(addr) == addr.name \o <<" <">> \o addr.address \o <<">">>

RECURSIVE JoinComma(_)
JoinComma(ss) ==
  IF ss = <<>> THEN <<>>
  ELSE IF Len(ss) = 1 THEN ss[1]
  ELSE ss[1] \o <<", ">> \o JoinComma(Tail(ss))

\* formatAddress
formatAddress(address) ==
  IF ~address.present THEN <<"Unknown">>
  ELSE JoinComma([i \in DOMAIN address.value |-> AddrString(address.value[i])])

\* the "to" field of the Email object; an element of an array of address
\* objects has no name and no address of its own
EmailTo(to) ==
  IF to.kind = "none" THEN <<>>
  ELSE IF to.kind = "array"
       THEN [i \in DOMAIN to.objs |-> <<"undefined", " <", "undefined", ">">>]
       ELSE [i \in DOMAIN to.objs[1].value |-> AddrString(to.objs[1].value[i])]

\* the Email object pushed to allEmails
EmailOfNoSentinel(mailbox, uid, parsedEmail, attachments) ==
  [id |-> ToString(uid),
   from |-> formatAddress(parsedEmail.from),
   to |-> EmailTo(parsedEmail.to),
   subject |-> parsedEmail.subject,
   date |-> parsedEmail.date,
   attachments |-> attachments,
   mailbox |-> mailbox,
   status |-> "unread"]

EmailOf(mailbox, uid, parsedEmail, attachments) ==
  [id |-> ToString(uid),
   from |-> formatAddress(parsedEmail.from),
   to |-> EmailTo(parsedEmail.to),
   subject |-> IF parsedEmail.subject # <<>> THEN parsedEmail.subject ELSE <<"No Subject">>,
   date |-> IF parsedEmail.date # <<>> THEN parsedEmail.date ELSE <<"No Date">>,
   attachments |-> attachments,
   mailbox |-> mailbox,
   status |-> "unread"]

(***************************************************************************)
(* The mail store holds these messages.  A message is what simpleParser    *)
(* makes of it: hasRaw says whether the fetched parts hold the full body,  *)
(* parses whether simpleParser resolves.                                   *)
(***************************************************************************)
OrgName == <<"Acme">>
OrgSlug == <<"acme">>

From(name, address) ==
  [present |-> TRUE, value |-> <<[name |-> name, address |-> address]>>]

ToSingle(name, address, text) ==
  [kind |-> "single",
   objs |-> <<[text |-> text, value |-> <<[name |-> name, address |-> address]>>]>>]

Att(filename) == [filename |-> filename, contentType |-> "application/pdf"]

MsgInbox ==
  [hasRaw |-> TRUE, parses |-> TRUE,
   from |-> From(<<"Bob">>, <<"bob", "@x.org">>),
   to |-> ToSingle(<<>>, <<"events", "+", "acme", "@", "gmail.com">>,
                   <<"events", "+", "acme", "@", "gmail.com">>),
   subject |-> <<"Hello">>, date |-> <<>>,
   attachments |-> <<Att(<<"a.pdf">>)>>]

MsgSent ==
  [hasRaw |-> TRUE, parses |-> TRUE,
   from |-> From(<<"Acme", " Admin">>, <<"events", "@", "gmail.com">>),
   to |-> ToSingle(<<"Bob">>, <<"bob", "@x.org">>, <<"Bob", " <", "bob", "@x.org", ">">>),
   subject |-> <<>>, date |-> <<"2024-01-01">>,
   attachments |-> <<Att(<<"r.txt">>), Att(<<"r.txt">>)>>]

MsgOther ==
  [hasRaw |-> TRUE, parses |-> TRUE,
   from |-> From(<<"Bob">>, <<"bob", "@x.org">>),
   to |-> ToSingle(<<>>, <<"events", "@", "gmail.com">>, <<"events", "@", "gmail.com">>),
   subject |-> <<"Other">>, date |-> <<"2024-01-02">>,
   attachments |-> <<Att(<<>>)>>]

MsgBad == [MsgInbox EXCEPT !.parses = FALSE]

MsgNoRaw == [MsgOther EXCEPT !.hasRaw = FALSE]

Catalogue == {MsgInbox, MsgSent, MsgOther, MsgBad, MsgNoRaw}

(***************************************************************************)
(* Messages for the relevance check: from headers with up to MaxEntries    *)
(* entries, to headers given as one address object or as an array of       *)
(* address objects.                                                        *)
(***************************************************************************)
OrgNameLong == <<"Acme", " Robotics">>

DisplayNames ==
  {<<>>, <<"Acme">>, <<"acme">>, <<"Acme", " Robotics">>, <<"acme", " robotics">>,
   <<"The ", "Acme", " Robotics", " Team">>, <<" Robotics", "Acme">>}

ToAddresses ==
  {<<"events", "+", "acme", "@", "gmail.com">>,
   <<"events", "+", "acme", "@", "outlook.com">>,
   <<"events", "+", "Acme", "@", "gmail.com">>,
   <<"events", "+", "acme", "-x", "@", "gmail.com">>,
   <<"acme", "@", "gmail.com">>,
   <<"events", "@", "gmail.com">>}

\* display names of recipients: none, or the alias written out as the name
ToNames == {<<>>, <<"events", "+", "acme", "@", "gmail.com">>}

\* the text mailparser gives an address object: the addresses, each with
\* its display name if it has one
AddressText(value) ==
  JoinComma([i \in DOMAIN value |->
               IF value[i].name = <<>> THEN value[i].address
               ELSE AddrString(value[i])])

AddressObject(value) == [text |-> AddressText(value), value |-> value]

FromHeaders ==
  {[present |-> FALSE, value |-> <<>>]}
    \cup {[present |-> TRUE, value |-> v] :
            v \in SeqsUpTo([name : DisplayNames,
                            address : {<<"events", "@", "gmail.com">>}], MaxEntries)}

ToHeaders ==
  LET values == SeqsUpTo([name : ToNames, address : ToAddresses], MaxEntries)
  IN  {[kind |-> "none", objs |-> <<>>]}
        \cup {[kind |-> "single", objs |-> <<AddressObject(v)>>] : v \in values}
        \cup {[kind |-> "array",
               objs |-> [i \in DOMAIN v |-> AddressObject(<<v[i]>>)]] : v \in values}

\* a message written to the alias of the organization by a sender whose
\* display name contains the organization name
MsgFromNamesake ==
  [MsgInbox EXCEPT !.from = From(<<"Acme", " Fan">>, <<"fan", "@x.org">>)]

RelevanceMessages ==
  {[MsgSent EXCEPT !.from = f] : f \in FromHeaders}
    \cup {[MsgInbox EXCEPT !.to = t] : t \in ToHeaders}
    \cup {MsgFromNamesake}

(***************************************************************************)
(* Messages for the attachment names: the filename of an attachment is     *)
(* whatever the sender wrote in the header; "/" is the path separator.     *)
(***************************************************************************)
AttachmentFilenames ==
  {<<>>, <<"a.pdf">>, <<"..">>, <<"dir", "/", "a.pdf">>, <<"a.pdf", "/">>,
   <<"..", "/", "..", "/", "etc", "/", "passwd">>, <<"x", "/", "..">>,
   <<"x", "/", ".">>}

NameMessages ==
  {[MsgInbox EXCEPT !.attachments = <<Att(f)>>] : f \in AttachmentFilenames}

Cycles == 1..NumCycles

\* a GET that has not been invoked yet; deleteErrors is what the sweep has
\* written to the error log (the files it failed to delete)
IdleCycle ==
  [pc |-> "idle", organizationName |-> NullParam, organizationSlug |-> NullParam,
   conn |-> "none", mailbox |-> 0, results |-> <<>>, msg |-> 0, att |-> 0,
   pending |-> <<>>, attachments |-> <<>>, allEmails |-> <<>>,
   sweepLeft |-> {}, deleteErrors |-> {}, response |-> [status |-> 0]]

\* the locals of a GET are gone once it has returned
Return(L, response) ==
  [L EXCEPT !.pc = "done", !.response = response, !.mailbox = 0, !.results = <<>>,
            !.msg = 0, !.att = 0, !.pending = <<>>, !.attachments = <<>>,
            !.allEmails = <<>>, !.sweepLeft = {}]

\* the catch block of GET: a 500 response carrying error.message
CatchWithEmails(L, error) ==
  Return(L, [status |-> 500, message |-> "Error fetching emails", error |-> error,
             emails |-> L.allEmails])

Catch(L, error) ==
  Return(L, [status |-> 500, message |-> "Error fetching emails", error |-> error])

\* cleanupOldAttachments from the readdir listing on: files in the live set
\* are passed over, the first other file is handed to fs.unlink; with no
\* such file left GET returns the list.  The listing order is the file
\* system's, so any stale file may come first.
SweepChainKeepsAll(L, live) ==
  {Return(L, [status |-> 200, emails |-> L.allEmails])}

SweepChainFirstOnly(L, live) ==
  LET stale == L.sweepLeft \ live
  IN  IF stale = {} \/ L.pc = "unlink"
      THEN {Return(L, [status |-> 200, emails |-> L.allEmails])}
      ELSE {[L EXCEPT !.pc = "unlink", !.pending = f, !.sweepLeft = stale \ {f}] :
              f \in stale}

SweepChain(L, live) ==
  LET stale == L.sweepLeft \ live
  IN  IF stale = {}
      THEN {Return(L, [status |-> 200, emails |-> L.allEmails])}
      ELSE {[L EXCEPT !.pc = "unlink", !.pending = f, !.sweepLeft = stale \ {f}] :
              f \in stale}

\* the for loops over mailboxes and results from message k of the current
\* mailbox on, up to the next await: simpleParser of the next message with a
\* raw body, openBox of the next mailbox, or, after the last mailbox,
\* connection.end() and the readdir of cleanupOldAttachments.
RECURSIVE MsgChain(_, _)
MsgChain(L, k) ==
  IF k <= Len(L.results)
  THEN IF L.results[k].hasRaw
       THEN [L EXCEPT !.pc = "parse", !.msg = k]
       ELSE MsgChain(L, k + 1)
  ELSE IF L.mailbox < Len(mailboxes)
       THEN [L EXCEPT !.pc = "openBox", !.mailbox = L.mailbox + 1, !.results = <<>>,
                      !.msg = 0]
       ELSE [L EXCEPT !.pc = "readdir", !.conn = "closed", !.results = <<>>, !.msg = 0]

\* the loop over the attachments of the current message from attachment j
\* on (j counts from 1, the index of the code from 0), reading the clock at
\* t or later for each name: an attachment whose name is in the live set is
\* passed over, the first other one is handed to fs.writeFile; after the
\* last one the email is pushed and the message loop goes on.
RECURSIVE AttChain(_, _, _, _)
AttChain(L, j, t, live) ==
  LET parsedEmail == L.results[L.msg]
  IN  IF j > Len(parsedEmail.attachments)
      THEN {[L |-> MsgChain([L EXCEPT !.allEmails =
                               Append(L.allEmails,
                                      EmailOf(mailboxes[L.mailbox], L.msg, parsedEmail,
                                              L.attachments)),
                             !.attachments = <<>>, !.att = 0, !.pending = <<>>],
                            L.msg + 1),
             now |-> t]}
      ELSE UNION {
             LET sanitizedFilename ==
                   SanitizedFilename(L.msg, t2, parsedEmail.attachments[j], j - 1)
             IN  IF sanitizedFilename \in live
                 THEN AttChain(L, j + 1, t2, live)
                 ELSE {[L |-> [L EXCEPT !.pc = "write", !.att = j,
                                        !.pending = sanitizedFilename],
                        now |-> t2]}
             : t2 \in {t, t + 1} \cap 0..MaxTime}

\* GET is invoked: the parameter check and, if it passes, the call of
\* imaps.connect.
GET(c, organizationName, organizationSlug) ==
  /\ c \in DOMAIN cyc
  /\ cyc[c].pc = "idle"
  /\ LET L == [cyc[c] EXCEPT !.organizationName = organizationName,
                             !.organizationSlug = organizationSlug]
     IN  cyc' = [cyc EXCEPT ![c] =
                   IF ParamsMissing(organizationName, organizationSlug)
                   THEN Return(L, [status |-> 400,
                                   message |-> "Organization name and slug are required"])
                   ELSE [L EXCEPT !.pc = "connect", !.conn = "connecting"]]
  /\ UNCHANGED <<store, now, dirExists, files, downloadedAttachments>>
  /\ UNCHANGED <<dvars, fvars>>

\* imaps.connect settles; on success fs.mkdir is called
ConnectResolve(c, ok) ==
  /\ c \in DOMAIN cyc
  /\ cyc[c].pc = "connect"
  /\ cyc' = [cyc EXCEPT ![c] =
               IF ok THEN [@ EXCEPT !.pc = "mkdir", !.conn = "open"]
               ELSE Catch([@ EXCEPT !.conn = "none"], "connect")]
  /\ UNCHANGED <<store, now, dirExists, files, downloadedAttachments>>
  /\ UNCHANGED <<dvars, fvars>>

\* fs.mkdir(attachmentsDir, {recursive: true}) settles; on success the
\* first mailbox is opened
MkdirResolve(c, ok) ==
  /\ c \in DOMAIN cyc
  /\ cyc[c].pc = "mkdir"
  /\ dirExists' = (dirExists \/ ok)
  /\ cyc' = [cyc EXCEPT ![c] =
               IF ok THEN [@ EXCEPT !.pc = "openBox", !.mailbox = 1]
               ELSE Catch(@, "mkdir")]
  /\ UNCHANGED <<store, now, files, downloadedAttachments>>
  /\ UNCHANGED <<dvars, fvars>>

\* connection.openBox settles; on success connection.search is called
OpenBoxResolve(c, ok) ==
  /\ c \in DOMAIN cyc
  /\ cyc[c].pc = "openBox"
  /\ cyc' = [cyc EXCEPT ![c] =
               IF ok THEN [@ EXCEPT !.pc = "search"]
               ELSE Catch(@, "openBox")]
  /\ UNCHANGED <<store, now, dirExists, files, downloadedAttachments>>
  /\ UNCHANGED <<dvars, fvars>>

\* connection.search settles; on success the loop over the results starts
SearchResolve(c, ok) ==
  /\ c \in DOMAIN cyc
  /\ cyc[c].pc = "search"
  /\ cyc' = [cyc EXCEPT ![c] =
               IF ok
               THEN MsgChain([cyc[c] EXCEPT
                                !.results = store[mailboxes[cyc[c].mailbox]]], 1)
               ELSE Catch(@, "search")]
  /\ UNCHANGED <<store, now, dirExists, files, downloadedAttachments>>
  /\ UNCHANGED <<dvars, fvars>>

\* simpleParser settles for the current message: a rejection reaches the
\* catch block of GET; otherwise the message is classified and, if
\* relevant, its attachments are gone through
ParseResolveNoClassify(c) ==
  /\ c \in DOMAIN cyc
  /\ cyc[c].pc = "parse"
  /\ LET L == cyc[c]
         parsedEmail == L.results[L.msg]
     IN  IF ~parsedEmail.parses
         THEN /\ cyc' = [cyc EXCEPT ![c] = Catch(L, "parse")]
              /\ now' = now
         ELSE \E out \in AttChain([L EXCEPT !.attachments = <<>>], 1, now,
                                  downloadedAttachments) :
                /\ cyc' = [cyc EXCEPT ![c] = out.L]
                /\ now' = out.now
  /\ UNCHANGED <<store, dirExists, files, downloadedAttachments>>
  /\ UNCHANGED <<dvars, fvars>>

ParseResolve(c) ==
  /\ c \in DOMAIN cyc
  /\ cyc[c].pc = "parse"
  /\ LET L == cyc[c]
         parsedEmail == L.results[L.msg]
     IN  IF ~parsedEmail.parses
         THEN /\ cyc' = [cyc EXCEPT ![c] = Catch(L, "parse")]
              /\ now' = now
         ELSE IF ~IsRelevant(mailboxes[L.mailbox], parsedEmail,
                             L.organizationName.value, L.organizationSlug.value)
         THEN /\ cyc' = [cyc EXCEPT ![c] = MsgChain(L, L.msg + 1)]
              /\ now' = now
         ELSE \E out \in AttChain([L EXCEPT !.attachments = <<>>], 1, now,
                                  downloadedAttachments) :
                /\ cyc' = [cyc EXCEPT ![c] = out.L]
                /\ now' = out.now
  /\ UNCHANGED <<store, dirExists, files, downloadedAttachments>>
  /\ UNCHANGED <<dvars, fvars>>

\* a path fs.writeFile can create a regular file at: "." and ".." name
\* directories
WritablePath(name) == name # <<>> /\ name # <<".">> /\ name # <<"..">>

\* fs.writeFile has put the pending attachment on disk; its promise has
\* not been resumed yet
WriteFile(c) ==
  /\ c \in DOMAIN cyc
  /\ cyc[c].pc = "write"
  /\ dirExists
  /\ WritablePath(cyc[c].pending)
  /\ files' = files \cup {cyc[c].pending}
  /\ cyc' = [cyc EXCEPT ![c].pc = "written"]
  /\ UNCHANGED <<store, now, dirExists, downloadedAttachments>>
  /\ UNCHANGED <<dvars, fvars>>

\* the await of fs.writeFile resumes: after a write the name joins the live
\* set and the attachment list; after a rejection the error is logged.
\* Then the attachment loop goes on.
WriteResolveFailureFatal(c, ok) ==
  /\ c \in DOMAIN cyc
  /\ cyc[c].pc = IF ok THEN "written" ELSE "write"
  /\ LET L == cyc[c]
         sanitizedFilename == L.pending
         live == IF ok THEN downloadedAttachments \cup {sanitizedFilename}
                 ELSE downloadedAttachments
         L2 == IF ok THEN [L EXCEPT !.attachments = Append(@, sanitizedFilename)]
               ELSE L
     IN  /\ downloadedAttachments' = live
         /\ IF ok
            THEN \E out \in AttChain(L2, L.att + 1, now, live) :
                   /\ cyc' = [cyc EXCEPT ![c] = out.L]
                   /\ now' = out.now
            ELSE /\ cyc' = [cyc EXCEPT ![c] = Catch(L, "write")]
                 /\ now' = now
  /\ UNCHANGED <<store, dirExists, files>>
  /\ UNCHANGED <<dvars, fvars>>

WriteResolve(c, ok) ==
  /\ c \in DOMAIN cyc
  /\ cyc[c].pc = IF ok THEN "written" ELSE "write"
  /\ LET L == cyc[c]
         sanitizedFilename == L.pending
         live == IF ok THEN downloadedAttachments \cup {sanitizedFilename}
                 ELSE downloadedAttachments
         L2 == IF ok THEN [L EXCEPT !.attachments = Append(@, sanitizedFilename)]
               ELSE L
     IN  /\ downloadedAttachments' = live
         /\ \E out \in AttChain(L2, L.att + 1, now, live) :
              /\ cyc' = [cyc EXCEPT ![c] = out.L]
              /\ now' = out.now
  /\ UNCHANGED <<store, dirExists, files>>
  /\ UNCHANGED <<dvars, fvars>>

\* fs.readdir of cleanupOldAttachments settles
ReaddirResolve(c, ok) ==
  /\ c \in DOMAIN cyc
  /\ cyc[c].pc = "readdir"
  /\ ok => dirExists
  /\ IF ok
     THEN \E L2 \in SweepChain([cyc[c] EXCEPT !.sweepLeft = files],
                               downloadedAttachments) :
            cyc' = [cyc EXCEPT ![c] = L2]
     ELSE cyc' = [cyc EXCEPT ![c] = Catch(@, "readdir")]
  /\ UNCHANGED <<store, now, dirExists, files, downloadedAttachments>>
  /\ UNCHANGED <<dvars, fvars>>

\* fs.unlink settles for the pending stale file; a failure is logged and
\* the sweep goes on
UnlinkResolveAborts(c, ok) ==
  /\ c \in DOMAIN cyc
  /\ cyc[c].pc = "unlink"
  /\ ok => cyc[c].pending \in files
  /\ files' = IF ok THEN files \ {cyc[c].pending} ELSE files
  /\ IF ok
     THEN \E L2 \in SweepChain([cyc[c] EXCEPT !.pending = <<>>],
                               downloadedAttachments) :
            cyc' = [cyc EXCEPT ![c] = L2]
     ELSE cyc' = [cyc EXCEPT ![c] =
                    Catch([@ EXCEPT !.deleteErrors = @ \cup {cyc[c].pending}],
                          "unlink")]
  /\ UNCHANGED <<store, now, dirExists, downloadedAttachments>>
  /\ UNCHANGED <<dvars, fvars>>

UnlinkResolve(c, ok) ==
  /\ c \in DOMAIN cyc
  /\ cyc[c].pc = "unlink"
  /\ ok => cyc[c].pending \in files
  /\ files' = IF ok THEN files \ {cyc[c].pending} ELSE files
  /\ \E L2 \in SweepChain([cyc[c] EXCEPT !.pending = <<>>,
                                        !.deleteErrors =
                                          IF ok THEN @ ELSE @ \cup {cyc[c].pending}],
                            downloadedAttachments) :
       cyc' = [cyc EXCEPT ![c] = L2]
  /\ UNCHANGED <<store, now, dirExists, downloadedAttachments>>
  /\ UNCHANGED <<dvars, fvars>>

\* values of the two query parameters
NameParams == {NullParam, TextParam(<<>>), TextParam(OrgName)}
SlugParams == {NullParam, TextParam(<<>>), TextParam(OrgSlug)}

RNameParams == {TextParam(OrgName), TextParam(OrgNameLong)}
RSlugParams == {TextParam(OrgSlug)}

\* GET invoked with both parameters given
RNext ==
  \/ \E c \in Cycles, n \in RNameParams, sl \in RSlugParams : GET(c, n, sl)
  \/ \E c \in Cycles, ok \in BOOLEAN : ConnectResolve(c, ok)
  \/ \E c \in Cycles, ok \in BOOLEAN : MkdirResolve(c, ok)
  \/ \E c \in Cycles, ok \in BOOLEAN : OpenBoxResolve(c, ok)
  \/ \E c \in Cycles, ok \in BOOLEAN : SearchResolve(c, ok)
  \/ \E c \in Cycles : ParseResolve(c)
  \/ \E c \in Cycles : WriteFile(c)
  \/ \E c \in Cycles, ok \in BOOLEAN : WriteResolve(c, ok)
  \/ \E c \in Cycles, ok \in BOOLEAN : ReaddirResolve(c, ok)
  \/ \E c \in Cycles, ok \in BOOLEAN : UnlinkResolve(c, ok)

INext ==
  \/ \E c \in Cycles, n \in NameParams, sl \in SlugParams : GET(c, n, sl)
  \/ \E c \in Cycles, ok \in BOOLEAN : ConnectResolve(c, ok)
  \/ \E c \in Cycles, ok \in BOOLEAN : MkdirResolve(c, ok)
  \/ \E c \in Cycles, ok \in BOOLEAN : OpenBoxResolve(c, ok)
  \/ \E c \in Cycles, ok \in BOOLEAN : SearchResolve(c, ok)
  \/ \E c \in Cycles : ParseResolve(c)
  \/ \E c \in Cycles : WriteFile(c)
  \/ \E c \in Cycles, ok \in BOOLEAN : WriteResolve(c, ok)
  \/ \E c \in Cycles, ok \in BOOLEAN : ReaddirResolve(c, ok)
  \/ \E c \in Cycles, ok \in BOOLEAN : UnlinkResolve(c, ok)

\* files a previous run of the process left in the attachments directory
OldFiles == {{}, {<<"old1.bin">>}, {<<"old1.bin">>, <<"old2.bin">>}}

\* the process has started and GET is going to be invoked n times
IIdle(st, n, old) ==
  /\ store = st
  /\ cyc = [c \in 1..n |-> IdleCycle]
  /\ now = 0
  /\ dirExists = (old # {})
  /\ files = old
  /\ downloadedAttachments = {}

(***************************************************************************)
(* The newsletter page (NewsletterPage) splits the list of the 200 response *)
(* into the two lists it hands to the Emails component.                     *)
(***************************************************************************)

\* String.prototype.endsWith
EndsWith(s, suffix) ==
  Len(suffix) <= Len(s) /\ SubSeq(s, Len(s) - Len(suffix) + 1, Len(s)) = suffix

\* allEmails.emails.filter((email) => email.from.includes(organization.name))
SentEmails(emails, organizationName) ==
  LET keep(email) == Includes(email.from, organizationName)
  IN  SelectSeq(emails, keep)

\* allEmails.emails.filter((email) => email.to.some((addr) => ...))
IncomingEmails(emails, organizationSlug) ==
  LET keep(email) ==
        \E i \in DOMAIN email.to :
          \/ Includes(email.to[i], organizationSlug \o <<"@">>)
          \/ EndsWith(email.to[i], organizationSlug \o <<"@", "yourdomain.com">>)
  IN  SelectSeq(emails, keep)

(***************************************************************************)
(* The newsletter form (handleSendNewsletter of NewsletterCreation).       *)
(***************************************************************************)

\* JSON.stringify(uniqueUsers.map((u) => u.email))
EmailsOf(users) == [i \in DOMAIN users |-> users[i].email]

\* results.flat()
RECURSIVE Flat(_)
Flat(results) ==
  IF results = <<>> THEN <<>> ELSE Head(results) \o Flat(Tail(results))

\* [...selectedUsers, ...selectedEventUsers]
CombinedUsers(selected, results) == selected \o Flat(results)

\* combinedUsers.filter((user, index, self) => index === self.findIndex(...))
FormUniqueUsersNoFilter(combinedUsers) == combinedUsers

FormUniqueUsers(combinedUsers) == FilterFirst(combinedUsers, 1)

\* validateForm
ValidateForm == formValid /\ ~(Len(selectedUsers) = 0 /\ Len(selectedEvents) = 0)

\* the two components that gate their content on the send_newsletters
\* permission
Components == {"Emails", "NewsletterCreation"}

\* user ids and organization ids; the empty string stands for an absent one
PermissionPairs == [user : {"", "u1", "u2"}, org : {"", "o1"}]

\* the gate before the first effect has run: the useState defaults
PIdle ==
  /\ pair = [user |-> "", org |-> ""]
  /\ hasPermission = [c \in Components |-> "false"]
  /\ checkingPermission = TRUE
  /\ checks = [c \in Components |-> <<>>]
  /\ settled = [c \in Components |-> "none"]

\* the form before the send button is pressed
FIdle(selected, events, results, valid) ==
  /\ PIdle
  /\ selectedUsers = selected
  /\ selectedEvents = events
  /\ formValid = valid
  /\ fpc = "idle"
  /\ sending = FALSE
  /\ memberResults = results
  /\ recipients = <<>>
  /\ alert = "none"

\* the send button: validateForm and, if it passes, setSending(true) and
\* the member lookups of the selected events
HandleSendNewsletter ==
  /\ fpc = "idle"
  /\ IF ValidateForm
     THEN /\ sending' = TRUE
          /\ fpc' = "members"
          /\ alert' = alert
     ELSE /\ alert' = "validation"
          /\ fpc' = "done"
          /\ sending' = sending
  /\ UNCHANGED <<selectedUsers, selectedEvents, formValid, memberResults, recipients>>
  /\ UNCHANGED <<dvars, ivars, pvars>>

\* member lists of k events, room entries in all
RECURSIVE MemberResults(_, _)
MemberResults(k, room) ==
  IF k = 0 THEN {<<>>}
  ELSE UNION {{<<m>> \o rest : rest \in MemberResults(k - 1, room - Len(m))} :
                m \in SeqsUpTo([email : Addresses], room)}

\* Promise.all of the member lookups settles: rejected, or with the member
\* list of each selected event.  The recipients are built and posted; with no
\* recipient the handler returns after an error dialog.
MembersResolve(rejected) ==
  /\ fpc = "members"
  /\ IF rejected
     THEN /\ alert' = "failed"
          /\ sending' = FALSE
          /\ fpc' = "done"
          /\ recipients' = recipients
     ELSE /\ LET uniqueUsersOfForm ==
                   FormUniqueUsers(CombinedUsers(selectedUsers, memberResults))
             IN  IF Len(uniqueUsersOfForm) = 0
                 THEN /\ alert' = "no recipient"
                      /\ sending' = FALSE
                      /\ fpc' = "done"
                      /\ recipients' = recipients
                 ELSE /\ recipients' = EmailsOf(uniqueUsersOfForm)
                      /\ fpc' = "post"
                      /\ UNCHANGED <<alert, sending>>
  /\ UNCHANGED <<selectedUsers, selectedEvents, formValid, memberResults>>
  /\ UNCHANGED <<dvars, ivars, pvars>>

\* axios.post settles: status 200, another status, or a rejection
PostResponses == {"200", "other", "throw"}

PostResolveNoFinally(resp) ==
  /\ fpc = "post"
  /\ IF resp = "200"
     THEN /\ alert' = "success"
          /\ selectedUsers' = <<>>
          /\ selectedEvents' = <<>>
     ELSE /\ alert' = "failed"
          /\ UNCHANGED <<selectedUsers, selectedEvents>>
  /\ sending' = (resp = "throw")
  /\ fpc' = "done"
  /\ UNCHANGED <<formValid, memberResults, recipients>>
  /\ UNCHANGED <<dvars, ivars, pvars>>

PostResolve(resp) ==
  /\ fpc = "post"
  /\ IF resp = "200"
     THEN /\ alert' = "success"
          /\ selectedUsers' = <<>>
          /\ selectedEvents' = <<>>
     ELSE /\ alert' = "failed"
          /\ UNCHANGED <<selectedUsers, selectedEvents>>
  /\ sending' = FALSE
  /\ fpc' = "done"
  /\ UNCHANGED <<formValid, memberResults, recipients>>
  /\ UNCHANGED <<dvars, ivars, pvars>>

\* What check_permissions gives for a pair: the data of the rpc (true or
\* false), null after an rpc error, or a rejected promise.  The rpc grants
\* nothing to an absent user or organization.
CheckResults(p) ==
  IF p.user # "" /\ p.org # "" THEN {"true", "false", "null", "throw"}
  ELSE {"false", "null", "throw"}

\* if (user && organizationId)
PairPresent(p) == p.user # "" /\ p.org # ""

\* The components are rendered with user and organization p for the first
\* time, or p differs from the pair of the last render: the effects with
\* dependencies [user, organizationId] run.  Emails starts a check only for
\* a present pair and otherwise clears its flags; NewsletterCreation always
\* starts one.
RunEffects(p) ==
  /\ Len(checks["Emails"]) < MaxChecks
  /\ checks["Emails"] = <<>> \/ p # pair
  /\ pair' = p
  /\ IF PairPresent(p)
     THEN /\ checkingPermission' = TRUE
          /\ hasPermission' = hasPermission
          /\ checks' = [c \in Components |->
                          Append(checks[c], [pair |-> p, status |-> "pending"])]
     ELSE /\ checkingPermission' = FALSE
          /\ hasPermission' = [hasPermission EXCEPT !["Emails"] = "false"]
          /\ checks' = [checks EXCEPT
                          !["Emails"] = Append(@, [pair |-> p, status |-> "skipped"]),
                          !["NewsletterCreation"] =
                            Append(@, [pair |-> p, status |-> "pending"])]
  /\ UNCHANGED settled
  /\ UNCHANGED <<dvars, ivars, svars>>

\* check_permissions of run k of the effect of Emails settles with r: the
\* result becomes the flag, a rejection is caught and clears it; finally
\* checkingPermission is cleared.
EmailsCheckResolve(k, r) ==
  /\ k \in DOMAIN checks["Emails"]
  /\ checks["Emails"][k].status = "pending"
  /\ r \in CheckResults(checks["Emails"][k].pair)
  /\ hasPermission' = [hasPermission EXCEPT
                         !["Emails"] = IF r = "throw" THEN "false" ELSE r]
  /\ checkingPermission' = FALSE
  /\ checks' = [checks EXCEPT !["Emails"][k].status = r]
  /\ settled' = [settled EXCEPT !["Emails"] = r]
  /\ UNCHANGED pair
  /\ UNCHANGED <<dvars, ivars, svars>>

\* check_permissions of run k of the effect of NewsletterCreation settles
\* with r: the result becomes the flag; a rejection is not caught and
\* leaves the flag as it is.
FormCheckResolve(k, r) ==
  /\ k \in DOMAIN checks["NewsletterCreation"]
  /\ checks["NewsletterCreation"][k].status = "pending"
  /\ r \in CheckResults(checks["NewsletterCreation"][k].pair)
  /\ hasPermission' = [hasPermission EXCEPT
                         !["NewsletterCreation"] = IF r = "throw" THEN @ ELSE r]
  /\ checks' = [checks EXCEPT !["NewsletterCreation"][k].status = r]
  /\ settled' = [settled EXCEPT !["NewsletterCreation"] = r]
  /\ UNCHANGED <<pair, checkingPermission>>
  /\ UNCHANGED <<dvars, ivars, svars>>

\* what the components render: Emails its lists, NewsletterCreation its form
Rendered(c) ==
  IF c = "Emails" THEN ~checkingPermission /\ hasPermission[c] = "true"
  ELSE hasPermission[c] = "true"

PNext ==
  \/ \E p \in PermissionPairs : RunEffects(p)
  \/ \E k \in 1..MaxChecks, r \in {"true", "false", "null", "throw"} :
       EmailsCheckResolve(k, r)
  \/ \E k \in 1..MaxChecks, r \in {"true", "false", "null", "throw"} :
       FormCheckResolve(k, r)

FNext ==
  \/ HandleSendNewsletter
  \/ \E rejected \in BOOLEAN : MembersResolve(rejected)
  \/ \E resp \in PostResponses : PostResolve(resp)

(***************************************************************************)
(* Specifications.                                                         *)
(***************************************************************************)
EmptyStore == [m \in Range(mailboxes) |-> <<>>]

DInit ==
  /\ \E emails \in SeqsUpTo(Addresses, MaxRecipients) :
       DIdle([i \in DOMAIN emails |-> [id |-> i, email |-> emails[i]]])
  /\ IIdle(EmptyStore, 0, {})
  /\ FIdle(<<>>, <<>>, <<>>, FALSE)

SpecDispatch == DInit /\ [][DNext]_vars

\* Every answer of the submission service and of the store is eventually
\* delivered, and the runtime resumes every settled promise.
FairSpecDispatch == SpecDispatch /\ WF_vars(DNext)

IInit ==
  /\ DIdle(<<>>)
  /\ FIdle(<<>>, <<>>, <<>>, FALSE)
  /\ \E inbox \in SeqsUpTo(Catalogue, MaxMsgs), sent \in SeqsUpTo(Catalogue, MaxMsgs),
        n \in Cycles, old \in OldFiles :
       /\ Load(n, Len(inbox) + Len(sent) + Cardinality(old)) <= MaxLoad
       /\ IIdle([m \in Range(mailboxes) |-> IF m = "INBOX" THEN inbox ELSE sent], n, old)

SpecIngest == IInit /\ [][INext]_vars

\* one invocation, one message in one of the two folders
RInit ==
  /\ DIdle(<<>>)
  /\ FIdle(<<>>, <<>>, <<>>, FALSE)
  /\ \E m \in RelevanceMessages, folder \in Range(mailboxes),
        old \in {{}, {<<"old1.bin">>}} :
       IIdle([b \in Range(mailboxes) |-> IF b = folder THEN <<m>> ELSE <<>>], 1, old)

SpecRelevance == RInit /\ [][RNext]_vars

\* up to NumCycles invocations, one relevant message with one attachment
NInit ==
  /\ DIdle(<<>>)
  /\ FIdle(<<>>, <<>>, <<>>, FALSE)
  /\ \E m \in NameMessages, n \in Cycles, old \in {{}, {<<"old1.bin">>}} :
       /\ Load(n, 1 + Cardinality(old)) <= MaxLoad
       /\ IIdle([b \in Range(mailboxes) |-> IF b = "INBOX" THEN <<m>> ELSE <<>>], n, old)

SpecNames == NInit /\ [][RNext]_vars

FInit ==
  /\ DIdle(<<>>)
  /\ IIdle(EmptyStore, 0, {})
  /\ \E selected \in SeqsUpTo([email : Addresses], MaxCombined), k \in 0..MaxEvents,
        valid \in BOOLEAN :
       \E results \in MemberResults(k, MaxCombined - Len(selected)) :
         FIdle(selected, [e \in 1..k |-> e], results, valid)

SpecForm == FInit /\ [][FNext]_vars

\* the page has been rendered; no newsletter is being composed
PInit ==
  /\ DIdle(<<>>)
  /\ IIdle(EmptyStore, 0, {})
  /\ FIdle(<<>>, <<>>, <<>>, FALSE)

SpecPermission == PInit /\ [][PNext]_vars

(***************************************************************************)
(* Properties of dispatch.                                                 *)
(***************************************************************************)
Emails(users) == [i \in DOMAIN users |-> users[i].email]

\* dedup(R): R with duplicate addresses removed, first occurrence kept
RECURSIVE Dedup(_)
Dedup(r) ==
  IF r = <<>> THEN <<>>
  ELSE LET front == SubSeq(r, 1, Len(r) - 1)
           last == r[Len(r)]
       IN  IF last \in Range(front) THEN Dedup(front) ELSE Append(Dedup(front), last)

NonEmpty(a) == a # ""

Distinct(s) == \A i, j \in DOMAIN s : s[i] = s[j] => i = j

CountIn(s, x) == Cardinality({i \in DOMAIN s : s[i] = x})

TaskOk(i) == sendOutcome[i] = "data" /\ insertOutcome[i] = "ok"

HasRow(i) ==
  \E k \in DOMAIN rows : /\ rows[k].receiver = uniqueUsers[i].email
                          /\ rows[k].receiver_id = uniqueUsers[i].id

FailureEntries(i) == {k \in DOMAIN failures : failures[k].email = uniqueUsers[i].email}

\* C2 as stated: every dispatch submits exactly |dedup(R)| messages, each to
\* a distinct address.
C2_Original ==
  dpc # "idle" =>
    /\ Len(submitted) = Len(Dedup(Emails(allUsers)))
    /\ Distinct(submitted)

\* C2 (amended): from the start of a dispatch on, the messages submitted are
\* exactly the distinct non-empty addresses of R, one each, in the order of
\* their first occurrence; an entry with an empty address gets no message,
\* and nothing is submitted a second time.
C2_DedupSubmissions ==
  dpc # "idle" =>
    /\ submitted = SelectSeq(Dedup(Emails(allUsers)), NonEmpty)
    /\ Distinct(submitted)
    /\ Len(submitted) = Len(Dedup(Emails(allUsers)))
                          - (IF "" \in Range(Emails(allUsers)) THEN 1 ELSE 0)

C2_Witness ==
  /\ dpc = "returned"
  /\ ~Distinct(Emails(allUsers))
  /\ Len(submitted) = 2
  /\ Len(allUsers) = 3

\* C3: when the submission service fails exactly the recipients in F and
\* the send and the row write succeed for every other recipient, the
\* summary has successCount = n - |F|, one failure entry per member of F
\* and no other, and a row for each of the others.
C3_FailSet == {i \in DOMAIN uniqueUsers : sendOutcome[i] \in SendResponses \ {"data"}}

C3_Scenario ==
  /\ dpc = "returned"
  /\ \A i \in DOMAIN uniqueUsers \ C3_FailSet : TaskOk(i)

C3_PartialFailureCounts ==
  C3_Scenario =>
    /\ dresult.kind = "summary"
    /\ dresult.successCount = Len(uniqueUsers) - Cardinality(C3_FailSet)
    /\ Len(dresult.failures) = Cardinality(C3_FailSet)
    /\ \A i \in C3_FailSet :
         Cardinality({k \in DOMAIN dresult.failures :
                        dresult.failures[k].email = uniqueUsers[i].email}) = 1
    /\ \A i \in DOMAIN uniqueUsers \ C3_FailSet : HasRow(i)
    /\ Len(rows) = Len(uniqueUsers) - Cardinality(C3_FailSet)

C3_Witness ==
  /\ C3_Scenario
  /\ Len(uniqueUsers) = 3
  /\ Cardinality(C3_FailSet) = 1
  /\ dresult.successCount = 2

\* C4: whatever happens to the other recipients, each recipient with an
\* address gets its own submission; it gets its row exactly when its own
\* send and insert succeeded and exactly one failure entry otherwise; rows
\* written and messages submitted are never taken back.
C4_OwnOutcome ==
  dpc = "returned" =>
    \A i \in DOMAIN uniqueUsers :
      HasEmail(uniqueUsers[i]) =>
        /\ CountIn(submitted, uniqueUsers[i].email) = 1
        /\ sendOutcome[i] # "none"
        /\ HasRow(i) <=> TaskOk(i)
        /\ Cardinality(FailureEntries(i)) = (IF TaskOk(i) THEN 0 ELSE 1)

C4_NoRollback ==
  /\ Len(rows') >= Len(rows) /\ SubSeq(rows', 1, Len(rows)) = rows
  /\ dpc # "idle" => submitted' = submitted

C4_FailureIsolation == [](C4_OwnOutcome) /\ [][C4_NoRollback]_vars

C4_Witness ==
  /\ dpc = "returned"
  /\ \E i, j, k \in DOMAIN uniqueUsers :
       /\ sendOutcome[i] \in {"error", "throw"}
       /\ sendOutcome[j] = "data" /\ insertOutcome[j] \in {"error", "throw"}
       /\ TaskOk(k) /\ HasRow(k)

\* C5: when sendNewsletter returns, no send and no row write of any
\* recipient is still in flight.
C5_ReturnAfterAllSettled ==
  dpc = "returned" =>
    \A i \in DOMAIN task : task[i] \notin {"awaitSend", "awaitInsert"}

C5_Witness ==
  /\ dpc = "returned"
  /\ Len(uniqueUsers) = 3
  /\ \E i, j \in DOMAIN uniqueUsers : TaskOk(i) /\ ~TaskOk(j) /\ sendOutcome[j] # "none"

\* C6: sendNewsletter never raises: it always ends by returning the summary
\* {successCount, failures}, whatever the submission service and the store
\* answer.
C6_AlwaysSummary ==
  /\ [](dresult.kind # "raised")
  /\ [](dpc = "returned" => dresult.kind = "summary")
  /\ <>(dpc = "returned")

C6_Witness ==
  /\ dpc = "returned"
  /\ dresult.kind = "summary"
  /\ \E i, j, k \in DOMAIN uniqueUsers :
       /\ sendOutcome[i] = "throw"
       /\ sendOutcome[j] = "sandbox"
       /\ insertOutcome[k] = "throw"

\* C7 as stated: a dispatch whose recipient set is empty after
\* deduplication is rejected instead of producing a summary, and submits
\* and writes nothing.
C7_EmptyRejected ==
  (dpc = "returned" /\ Dedup(Emails(allUsers)) = <<>>) =>
    /\ dresult.kind = "rejected"
    /\ submitted = <<>>
    /\ rows = <<>>

(***************************************************************************)
(* Properties of ingestion.                                                *)
(***************************************************************************)
Missing(param) == ~param.present \/ param.value = <<>>

BadRequest(L) == Missing(L.organizationName) \/ Missing(L.organizationSlug)

\* C1: a request without organization name or slug is answered 400 at once:
\* no connection is attempted, the attachments directory, the files in it
\* and the live set stay as they are, and the invocation does nothing more.
C1_Rejected ==
  \A c \in DOMAIN cyc :
    (cyc[c].pc # "idle" /\ BadRequest(cyc[c])) =>
      /\ cyc[c].pc = "done"
      /\ cyc[c].response.status = 400
      /\ cyc[c].conn = "none"

C1_RejectStep ==
  \A c \in DOMAIN cyc :
    (cyc[c].pc = "idle" /\ cyc'[c].pc # "idle" /\ BadRequest(cyc'[c])) =>
      /\ dirExists' = dirExists
      /\ files' = files
      /\ downloadedAttachments' = downloadedAttachments

C1_MissingParamsNoSideEffect == [](C1_Rejected) /\ [][C1_RejectStep]_vars

C1_Witness ==
  \E c \in DOMAIN cyc :
    /\ cyc[c].pc = "done"
    /\ cyc[c].response.status = 400
    /\ cyc[c].organizationName = TextParam(OrgName)
    /\ cyc[c].organizationSlug = TextParam(<<>>)
    /\ files # {}
    /\ downloadedAttachments = {}

\* C8 as stated: when an invocation has produced its response, the session
\* it opened is closed.
C8_SessionClosedAtResponse ==
  \A c \in DOMAIN cyc : cyc[c].pc = "done" => cyc[c].conn # "open"

\* C9 as stated: a message that fails to parse is skipped, its error never
\* reaches the caller as the response of the cycle.
C9_ParseErrorNotPropagated ==
  \A c \in DOMAIN cyc :
    (cyc[c].pc = "done" /\ "error" \in DOMAIN cyc[c].response) =>
      cyc[c].response.error # "parse"

\* the relevant messages of both folders, folder by folder
RECURSIVE RelevantIds(_, _, _, _)
RelevantIds(mailbox, msgs, k, L) ==
  IF k > Len(msgs) THEN <<>>
  ELSE IF /\ msgs[k].hasRaw
          /\ msgs[k].parses
          /\ IsRelevant(mailbox, msgs[k], L.organizationName.value,
                        L.organizationSlug.value)
       THEN <<[id |-> ToString(k), mailbox |-> mailbox]>>
              \o RelevantIds(mailbox, msgs, k + 1, L)
       ELSE RelevantIds(mailbox, msgs, k + 1, L)

FullList(L) ==
  RelevantIds("INBOX", store["INBOX"], 1, L)
    \o RelevantIds("[Gmail]/Sent Mail", store["[Gmail]/Sent Mail"], 1, L)

IdsOf(emails) == [i \in DOMAIN emails |-> [id |-> emails[i].id, mailbox |-> emails[i].mailbox]]

\* C10: an invocation answers either 200 with the relevant messages of both
\* folders, or an error status with no email list at all; what an earlier
\* folder contributed is not returned with an error.
C10_FullListOrError ==
  \A c \in DOMAIN cyc :
    cyc[c].pc = "done" =>
      \/ /\ cyc[c].response.status = 200
         /\ "emails" \in DOMAIN cyc[c].response
         /\ "error" \notin DOMAIN cyc[c].response
         /\ IdsOf(cyc[c].response.emails) = FullList(cyc[c])
      \/ /\ cyc[c].response.status \in {400, 500}
         /\ "emails" \notin DOMAIN cyc[c].response

C10_Witness ==
  /\ DOMAIN cyc = {1}
  /\ cyc[1].pc = "done"
  /\ cyc[1].response.status = 500
  /\ cyc[1].response.error = "openBox"
  /\ downloadedAttachments # {}
  /\ Len(FullList(cyc[1])) = 2

\* the message of the store an entry of a response stands for
MessageOf(e) ==
  LET uid == CHOOSE k \in DOMAIN store[e.mailbox] : ToString(k) = e.id
  IN  store[e.mailbox][uid]

\* the rejections of the mail store, the parser and the file system that
\* the catch block of GET reports
ReportedErrors == {"connect", "mkdir", "openBox", "search", "parse", "readdir"}

\* C19: in a 200 response every relevant message appears (the list is the
\* full list), a message without date carries the date "No Date" and one
\* without subject the subject "No Subject", other dates and subjects are
\* passed on as they are; an error response is never due to a missing
\* header.
C19_MissingHeaderSentinels ==
  \A c \in DOMAIN cyc :
    cyc[c].pc = "done" =>
      IF cyc[c].response.status = 200
      THEN /\ IdsOf(cyc[c].response.emails) = FullList(cyc[c])
           /\ \A k \in DOMAIN cyc[c].response.emails :
                LET e == cyc[c].response.emails[k]
                    m == MessageOf(e)
                IN  /\ e.date = (IF m.date = <<>> THEN <<"No Date">> ELSE m.date)
                    /\ e.subject = (IF m.subject = <<>> THEN <<"No Subject">>
                                    ELSE m.subject)
      ELSE cyc[c].response.status = 500 => cyc[c].response.error \in ReportedErrors

\* one response with a dateless and a subjectless message
C19_Witness ==
  \E c \in DOMAIN cyc :
    /\ cyc[c].pc = "done"
    /\ cyc[c].response.status = 200
    /\ \E j, k \in DOMAIN cyc[c].response.emails :
         /\ MessageOf(cyc[c].response.emails[j]).date = <<>>
         /\ cyc[c].response.emails[j].date = <<"No Date">>
         /\ MessageOf(cyc[c].response.emails[k]).subject = <<>>
         /\ cyc[c].response.emails[k].subject = <<"No Subject">>

\* the stored filenames an email list refers to
AttachmentNames(emails) == UNION {Range(emails[i].attachments) : i \in DOMAIN emails}

\* the files an invocation in flight has written so far
WrittenBy(L) ==
  AttachmentNames(L.allEmails) \cup Range(L.attachments)
    \cup (IF L.pc = "written" THEN {L.pending} ELSE {})

InFlight(L) == L.pc \notin {"idle", "done"}

\* C20: no step of one invocation removes from disk a file written by
\* another invocation that is still in flight, and at the step that returns
\* a 200 response every attachment the response lists has its file on disk.
C20_SweepStep ==
  /\ \A c, d \in DOMAIN cyc :
       (c # d /\ cyc[c].pc = "unlink" /\ cyc'[c] # cyc[c] /\ InFlight(cyc[d])) =>
         (files \ files') \cap WrittenBy(cyc[d]) = {}
  /\ \A c \in DOMAIN cyc :
       (cyc[c].pc # "done" /\ cyc'[c].pc = "done" /\ cyc'[c].response.status = 200) =>
         AttachmentNames(cyc'[c].response.emails) \subseteq files'

C20_SweepSparesInFlight == [][C20_SweepStep]_vars

\* the files whose fs.writeFile has created them and not resumed yet
BeingWritten == {cyc[c].pending : c \in {d \in DOMAIN cyc : cyc[d].pc = "written"}}

\* the invocation returns its 200 response in this step
Returns200(c) ==
  cyc[c].pc # "done" /\ cyc'[c].pc = "done" /\ cyc'[c].response.status = 200

\* C14 as stated: when the sweep of the most recent invocation has ended
\* (no other invocation is in flight), every file in the directory is
\* referenced by the response of that invocation.
C14_OriginalStep ==
  \A c \in DOMAIN cyc :
    (Returns200(c) /\ \A d \in DOMAIN cyc \ {c} : ~InFlight(cyc[d])) =>
      files' \subseteq AttachmentNames(cyc'[c].response.emails)

C14_Original == [][C14_OriginalStep]_vars

\* C14: once the sweep of an invocation has ended with a 200 response,
\* every file in the directory is in the process-wide live set (written by
\* this or an earlier invocation of the process), or is just being written
\* by a concurrent invocation, or is a stale file whose deletion failed in
\* that sweep.
C14_OnlyLiveFilesRemain ==
  \A c \in DOMAIN cyc :
    (cyc[c].pc = "done" /\ cyc[c].response.status = 200) =>
      files \subseteq downloadedAttachments \cup BeingWritten \cup cyc[c].deleteErrors

\* two invocations have ended: the file of the first is still there and is
\* not referenced by the second; the second has deleted the file an earlier
\* process left and the first could not delete
C14_Witness ==
  \E c, d \in DOMAIN cyc :
    /\ cyc[c].pc = "done" /\ cyc[c].response.status = 200
    /\ cyc[d].pc = "done" /\ cyc[d].response.status = 200
    /\ cyc[d].deleteErrors # {} /\ cyc[c].deleteErrors = {}
    /\ files # {}
    /\ files \cap cyc[d].deleteErrors = {}
    /\ files \subseteq AttachmentNames(cyc[d].response.emails)
    /\ files \cap AttachmentNames(cyc[c].response.emails) = {}

\* the readdir of the sweep of c settles in this step, after the sweep of
\* another invocation d has ended and with no write in flight
SecondSweepLists(c, d) ==
  /\ c # d
  /\ cyc[d].pc = "done" /\ cyc[d].response.status = 200
  /\ cyc[c].pc = "readdir" /\ cyc'[c] # cyc[c]
  /\ cyc'[c].pc \in {"unlink", "done"} /\ cyc'[c].response.status # 500
  /\ BeingWritten = {}

\* C15 as stated: a sweep that follows a finished sweep finds no file to
\* delete and ends at once, the directory unchanged.
C15_OriginalStep ==
  \A c, d \in DOMAIN cyc :
    SecondSweepLists(c, d) => cyc'[c].pc = "done" /\ files' = files

C15_IdempotentStep ==
  \A c, d \in DOMAIN cyc :
    (SecondSweepLists(c, d) /\ cyc[d].deleteErrors = {}) =>
      cyc'[c].pc = "done" /\ files' = files

Listed(c, mailbox, k) ==
  \E j \in DOMAIN cyc[c].response.emails :
    /\ cyc[c].response.emails[j].mailbox = mailbox
    /\ cyc[c].response.emails[j].id = ToString(k)

\* some from entry has a display name that contains the organization name
FromNameContains(m, organizationName) ==
  \E i \in DOMAIN m.from.value : Includes(m.from.value[i].name, organizationName)

\* C11: a message of the sent folder is in the 200 response exactly if some
\* from entry has a display name containing the organization name, letter
\* case included; with no from entry or no display name it is left out.
C11_SentRelevance ==
  \A c \in DOMAIN cyc :
    (cyc[c].pc = "done" /\ cyc[c].response.status = 200) =>
      \A k \in DOMAIN store["[Gmail]/Sent Mail"] :
        LET m == store["[Gmail]/Sent Mail"][k]
        IN  (m.hasRaw /\ m.parses) =>
              (Listed(c, "[Gmail]/Sent Mail", k)
                 <=> FromNameContains(m, cyc[c].organizationName.value))

\* a message with two from entries listed because of the second, for the
\* two-word organization name
C11_Witness ==
  \E c \in DOMAIN cyc :
    /\ cyc[c].pc = "done" /\ cyc[c].response.status = 200
    /\ cyc[c].organizationName.value = OrgNameLong
    /\ Len(store["[Gmail]/Sent Mail"]) = 1
    /\ Listed(c, "[Gmail]/Sent Mail", 1)
    /\ LET value == store["[Gmail]/Sent Mail"][1].from.value
       IN  /\ Len(value) = 2
           /\ value[1].name = <<"acme", " robotics">>
           /\ value[2].name = <<"The ", "Acme", " Robotics", " Team">>

\* some address of the to header contains "+<slug>@"
ToAddressHasAlias(m, organizationSlug) ==
  \E i \in DOMAIN m.to.objs : \E j \in DOMAIN m.to.objs[i].value :
    Includes(m.to.objs[i].value[j].address, <<"+">> \o organizationSlug \o <<"@">>)

\* the text of some address object of the to header contains
\* "+<slug>@gmail.com"
ToTextHasGmailAlias(m, organizationSlug) ==
  \E i \in DOMAIN m.to.objs :
    Includes(m.to.objs[i].text, <<"+">> \o organizationSlug \o <<"@", "gmail.com">>)

C13_DistinctAcrossCycles ==
  \A c, d \in DOMAIN cyc :
    (/\ c # d
     /\ cyc[c].pc = "done" /\ cyc[c].response.status = 200
     /\ cyc[d].pc = "done" /\ cyc[d].response.status = 200) =>
      AttachmentNames(cyc[c].response.emails)
        \cap AttachmentNames(cyc[d].response.emails) = {}

\* a name that path.join(attachmentsDir, name) turns into a direct child of
\* the attachments directory
DirectChild(name) ==
  /\ name # <<>>
  /\ \A i \in DOMAIN name : name[i] # "/"
  /\ name # <<".">>
  /\ name # <<"..">>

\* C16: every name handed to fs.writeFile is a direct child of the
\* attachments directory: no separator in it, and neither "." nor "..".
C16_WriteStaysInRoot ==
  \A c \in DOMAIN cyc :
    cyc[c].pc \in {"write", "written"} => DirectChild(cyc[c].pending)

\* C21 as stated: when an invocation that got past the parameter check has
\* answered, with the list or with a top-level error, its sweep has run:
\* the files left in the directory are in the live set, or just being
\* written, or their deletion failed; after a 200 the session is closed.
C21_SweepAtEveryEnd ==
  \A c \in DOMAIN cyc :
    (cyc[c].pc = "done" /\ cyc[c].response.status \in {200, 500}) =>
      /\ files \subseteq downloadedAttachments \cup BeingWritten \cup cyc[c].deleteErrors
      /\ cyc[c].response.status = 200 => cyc[c].conn = "closed"

\* the deletion of the pending stale file of c fails in this step
UnlinkFails(c) ==
  /\ cyc[c].pc = "unlink"
  /\ cyc'[c].deleteErrors = cyc[c].deleteErrors \cup {cyc[c].pending}
  /\ cyc[c].pending \notin cyc[c].deleteErrors

\* C22: when the deletion of one stale file fails, the sweep goes on with
\* another stale file of its listing as long as there is one, and otherwise
\* the invocation answers 200 with its list: the failure never becomes the
\* top-level error.
C22_FailedStep ==
  \A c \in DOMAIN cyc :
    UnlinkFails(c) =>
      LET stale == cyc[c].sweepLeft \ downloadedAttachments
      IN  /\ files' = files
          /\ IF stale # {}
             THEN /\ cyc'[c].pc = "unlink"
                  /\ cyc'[c].pending \in stale
                  /\ cyc'[c].sweepLeft = stale \ {cyc'[c].pending}
                  /\ cyc'[c].allEmails = cyc[c].allEmails
             ELSE /\ cyc'[c].pc = "done"
                  /\ cyc'[c].response.status = 200
                  /\ cyc'[c].response.emails = cyc[c].allEmails

C22_SweepSurvivesFailedDelete == [][C22_FailedStep]_vars

\* an invocation has answered 200 with a message in its list although one
\* of the two stale files could not be deleted; the other one is gone
C22_Witness ==
  \E c \in DOMAIN cyc :
    /\ cyc[c].pc = "done" /\ cyc[c].response.status = 200
    /\ cyc[c].response.emails # <<>>
    /\ Cardinality(cyc[c].deleteErrors) = 1
    /\ \E old \in OldFiles :
         /\ Cardinality(old) = 2
         /\ cyc[c].deleteErrors \subseteq old
         /\ files \cap old = cyc[c].deleteErrors

\* C23 as stated: the name handed to fs.writeFile is the uid of the message,
\* a reading of the clock and the basename of the original filename, joined
\* by "-", whatever the original filename is.
C23_PrefixAlwaysPresent ==
  \A c \in DOMAIN cyc :
    cyc[c].pc \in {"write", "written"} =>
      LET L == cyc[c]
          attachment == L.results[L.msg].attachments[L.att]
      IN  \E t \in 0..MaxTime :
            L.pending = <<ToString(L.msg), "-", ToString(t), "-">>
                          \o Basename(OriginalFilename(attachment, L.att - 1))

\* the attachment loop of c moves on in this step, within a relevant message
\* or past its end, and leaves out a part: the name computed for that part
\* was already in the live set
PartPassedOver(c) ==
  LET L == cyc[c]
      M == cyc'[c]
      prev == IF L.pc = "parse" THEN 0 ELSE L.att
  IN  /\ L.pc \in {"parse", "write", "written"}
      /\ M # L
      /\ ~(M.pc = "done" /\ M.response.status = 500)
      /\ L.results[L.msg].parses
      /\ IsRelevant(mailboxes[L.mailbox], L.results[L.msg],
                    L.organizationName.value, L.organizationSlug.value)
      /\ M.pc # "written"
      /\ IF M.pc = "write" /\ M.msg = L.msg /\ M.mailbox = L.mailbox
         THEN M.att # prev + 1
         ELSE prev # Len(L.results[L.msg].attachments)

\* C24 as stated: the names computed within one invocation are pairwise
\* distinct, so when it is the only invocation of the process (the live set
\* holds nothing but its own names) no part of a relevant message is ever
\* passed over as already stored.
C24_NoPartPassedOver ==
  [][\A c \in DOMAIN cyc : DOMAIN cyc = {c} => ~PartPassedOver(c)]_vars

\* the message the invocation is working on is relevant
CurrentRelevant(L) ==
  IsRelevant(mailboxes[L.mailbox], L.results[L.msg], L.organizationName.value,
             L.organizationSlug.value)

\* the parse of a message that is not relevant settles in this step
ParsedNotRelevant(c) ==
  /\ cyc[c].pc = "parse"
  /\ cyc'[c] # cyc[c]
  /\ cyc[c].results[cyc[c].msg].parses
  /\ ~CurrentRelevant(cyc[c])

C25_WritesOnlyRelevant ==
  \A c \in DOMAIN cyc :
    cyc[c].pc \in {"write", "written"} => CurrentRelevant(cyc[c])

C25_SkipStep ==
  \A c \in DOMAIN cyc :
    ParsedNotRelevant(c) =>
      /\ cyc'[c].pc \in {"parse", "openBox", "readdir"}
      /\ cyc'[c].allEmails = cyc[c].allEmails
      /\ cyc'[c].attachments = <<>> /\ cyc'[c].pending = <<>>
      /\ files' = files
      /\ downloadedAttachments' = downloadedAttachments

\* C25: a write is only ever pending or done for an attachment of a
\* relevant message, and the step that classifies a message as not relevant
\* goes straight on to the next message, folder or the sweep: it starts no
\* write, adds nothing to the live set and nothing to the list.
C25_ClassifyBeforeIO == [](C25_WritesOnlyRelevant) /\ [][C25_SkipStep]_vars

\* an invocation has answered 200; the received folder holds a message with
\* an attachment that is not relevant and not listed, and the only files on
\* disk are those of the listed messages
C25_Witness ==
  \E c \in DOMAIN cyc :
    /\ cyc[c].pc = "done" /\ cyc[c].response.status = 200
    /\ \E k \in DOMAIN store["INBOX"] :
         /\ store["INBOX"][k].parses /\ store["INBOX"][k].hasRaw
         /\ store["INBOX"][k].attachments # <<>>
         /\ ~IsRelevant("INBOX", store["INBOX"][k], cyc[c].organizationName.value,
                        cyc[c].organizationSlug.value)
         /\ ~Listed(c, "INBOX", k)
    /\ files # {}
    /\ files = AttachmentNames(cyc[c].response.emails)
    /\ downloadedAttachments = files

\* the position of a listed message in its folder, as the store returned it
PositionOf(e) == CHOOSE k \in DOMAIN store[e.mailbox] : ToString(k) = e.id

\* C26: in a 200 response no message of the sent folder stands before a
\* message of the received folder, and two messages of one folder stand in
\* the order in which the store returned them.
C26_FolderMajorOrder ==
  \A c \in DOMAIN cyc :
    (cyc[c].pc = "done" /\ cyc[c].response.status = 200) =>
      LET emails == cyc[c].response.emails
      IN  \A i, j \in DOMAIN emails :
            i < j =>
              /\ ~(emails[i].mailbox = "[Gmail]/Sent Mail" /\ emails[j].mailbox = "INBOX")
              /\ emails[i].mailbox = emails[j].mailbox =>
                   PositionOf(emails[i]) < PositionOf(emails[j])

\* a response with two messages of the received folder followed by one of
\* the sent folder
C26_Witness ==
  \E c \in DOMAIN cyc :
    /\ cyc[c].pc = "done" /\ cyc[c].response.status = 200
    /\ Len(cyc[c].response.emails) = 3
    /\ cyc[c].response.emails[1].mailbox = "INBOX"
    /\ cyc[c].response.emails[2].mailbox = "INBOX"
    /\ cyc[c].response.emails[3].mailbox = "[Gmail]/Sent Mail"

\* fs.writeFile rejects for the pending attachment of c in this step
WriteFails(c) ==
  /\ cyc[c].pc = "write"
  /\ cyc'[c] # cyc[c]
  /\ cyc'[c].pc # "written"

\* C27: when the write of an attachment fails, its name joins neither the
\* live set nor the attachment list of its message, nothing it wrote before
\* is lost, and the invocation goes on: with the next attachment of the
\* message, or, the message pushed with the attachments stored so far, with
\* the next message, the next folder or the sweep.
C27_FailedStep ==
  \A c \in DOMAIN cyc :
    WriteFails(c) =>
      LET L == cyc[c]
          M == cyc'[c]
      IN  /\ downloadedAttachments' = downloadedAttachments
          /\ files' = files
          /\ M.pc \in {"write", "parse", "openBox", "readdir"}
          /\ IF M.pc = "write"
             THEN /\ M.msg = L.msg /\ M.mailbox = L.mailbox
                  /\ M.att > L.att
                  /\ M.attachments = L.attachments
                  /\ M.allEmails = L.allEmails
             ELSE /\ Len(M.allEmails) = Len(L.allEmails) + 1
                  /\ SubSeq(M.allEmails, 1, Len(L.allEmails)) = L.allEmails
                  /\ M.allEmails[Len(M.allEmails)].id = ToString(L.msg)
                  /\ M.allEmails[Len(M.allEmails)].attachments = L.attachments
                  /\ L.pending \notin Range(L.attachments)

C27_WriteFailureIsLocal == [][C27_FailedStep]_vars

\* one invocation in a fresh process has answered 200 with two messages:
\* the first is listed without its attachment, whose write failed (nothing
\* of it is in the live set), the second with an attachment written later
C27_Witness ==
  /\ DOMAIN cyc = {1}
  /\ cyc[1].pc = "done" /\ cyc[1].response.status = 200
  /\ Len(cyc[1].response.emails) = 2
  /\ MessageOf(cyc[1].response.emails[1]).attachments # <<>>
  /\ cyc[1].response.emails[1].attachments = <<>>
  /\ cyc[1].response.emails[2].attachments # <<>>
  /\ downloadedAttachments = Range(cyc[1].response.emails[2].attachments)

\* the recipients whose message the provider has accepted
ProviderAccepted == {i \in DOMAIN uniqueUsers : sendOutcome[i] = "data"}

\* C28: every row has status "Sent" and belongs to a recipient whose
\* message the provider accepted, no address has two rows, a recipient
\* whose submission failed has none, there are as many rows as the counter
\* says, and the summary returns that count; a row is appended only in a
\* step in which the provider's acceptance is already known.
C28_RowsState ==
  /\ \A k \in DOMAIN rows :
       /\ rows[k].status = "Sent"
       /\ \E i \in ProviderAccepted : /\ rows[k].receiver = uniqueUsers[i].email
                                        /\ rows[k].receiver_id = uniqueUsers[i].id
  /\ \A k, l \in DOMAIN rows : rows[k].receiver = rows[l].receiver => k = l
  /\ \A i \in DOMAIN uniqueUsers :
       (dpc # "idle" /\ sendOutcome[i] \in SendResponses \ {"data"}) => ~HasRow(i)
  /\ Len(rows) = successCount
  /\ dpc = "returned" =>
       /\ dresult.kind = "summary"
       /\ dresult.successCount = Len(rows)

C28_RowStep ==
  rows' # rows =>
    \E i \in ProviderAccepted :
      /\ task[i] = "awaitInsert"
      /\ rows' = Append(rows, [receiver_id |-> uniqueUsers[i].id,
                               receiver |-> uniqueUsers[i].email, status |-> "Sent"])

C28_RowsFollowSuccess == [](C28_RowsState) /\ [][C28_RowStep]_vars

\* a returned dispatch of three recipients: one row, one recipient refused
\* by the provider and one whose row write failed after the provider
\* accepted the message
C28_Witness ==
  /\ dpc = "returned"
  /\ Len(uniqueUsers) = 3
  /\ Len(rows) = 1 /\ dresult.successCount = 1
  /\ \E i, j \in DOMAIN uniqueUsers :
       /\ sendOutcome[i] \in {"error", "empty", "sandbox"} /\ ~HasRow(i)
       /\ sendOutcome[j] = "data" /\ insertOutcome[j] = "error" /\ ~HasRow(j)

\* the tasks that have completed with success, and those that have failed
TasksSucceeded == {i \in DOMAIN uniqueUsers : TaskOk(i)}

TasksFailed ==
  {i \in DOMAIN uniqueUsers :
     \/ sendOutcome[i] \in SendResponses \ {"data"}
     \/ insertOutcome[i] \in InsertResponses \ {"ok"}}

\* C29: at every moment of a dispatch, in whatever order the answers come
\* in, the counter equals the number of tasks that have succeeded so far and
\* the failure list holds exactly one entry for each task that has failed
\* so far and no other; the summary returns these two values.
C29_NoLostUpdate ==
  dpc # "idle" =>
    /\ successCount = Cardinality(TasksSucceeded)
    /\ Len(failures) = Cardinality(TasksFailed)
    /\ \A i \in TasksFailed : Cardinality(FailureEntries(i)) = 1
    /\ \A i \in DOMAIN uniqueUsers \ TasksFailed : FailureEntries(i) = {}
    /\ dpc = "returned" =>
         /\ dresult.kind = "summary"
         /\ dresult.successCount = Cardinality(TasksSucceeded)
         /\ dresult.failures = failures

\* three tasks, the answer for the last recipient came in before the answer
\* for the first: two failures and one success are all counted
C29_Witness ==
  /\ dpc = "returned"
  /\ Len(uniqueUsers) = 3
  /\ Cardinality(TasksFailed) = 2 /\ Len(dresult.failures) = 2
  /\ dresult.successCount = 1
  /\ dresult.failures[1].email = uniqueUsers[3].email
  /\ dresult.failures[2].email = uniqueUsers[1].email

\* the names in the live set under which the only attachment of message k of
\* the received folder has been stored
StoredNamesOf(k) ==
  {name \in downloadedAttachments :
     \E t \in 0..MaxTime :
       name = SanitizedFilename(k, t, store["INBOX"][k].attachments[1], 0)}

\* C30 as stated: however often the invocations of one process fetch a
\* message of the received folder with one named attachment, that
\* attachment is written once: the live set holds at most one stored name
\* of it.
C30_WrittenOnce ==
  \A k \in DOMAIN store["INBOX"] :
    (/\ Len(store["INBOX"][k].attachments) = 1
     /\ store["INBOX"][k].attachments[1].filename = <<"a.pdf">>) =>
      Cardinality(StoredNamesOf(k)) <= 1

\* C17: a recipient whose send was answered with the sandbox error ends as
\* one failure entry carrying the sandbox message and no row; the dispatch
\* still returns its summary, and every other recipient whose send and
\* insert succeeded has its row and no failure entry.
C17_SandboxIsOrdinaryFailure ==
  dpc = "returned" =>
    \A i \in DOMAIN uniqueUsers :
      sendOutcome[i] = "sandbox" =>
        /\ dresult.kind = "summary"
        /\ Cardinality(FailureEntries(i)) = 1
        /\ \A k \in FailureEntries(i) : failures[k].reason = SandboxMessage
        /\ ~HasRow(i)
        /\ \A j \in DOMAIN uniqueUsers \ {i} :
             TaskOk(j) => HasRow(j) /\ FailureEntries(j) = {}

C17_Witness ==
  /\ dpc = "returned"
  /\ dresult.kind = "summary"
  /\ \E i, j \in DOMAIN uniqueUsers :
       /\ sendOutcome[i] = "sandbox"
       /\ TaskOk(j) /\ HasRow(j)
       /\ dresult.successCount = 1
       /\ Len(dresult.failures) = 1

(***************************************************************************)
(* Claims about the newsletter form.                                       *)
(***************************************************************************)
\* the addresses of the selected users and of the members of the selected
\* events, as the form holds them while the request is in flight
CombinedAddresses ==
  EmailsOf(selectedUsers) \o EmailsOf(Flat(memberResults))

\* C18: the posted recipient list holds exactly the addresses of the
\* selected users and of the members of the selected events, each address
\* once, addresses compared as they are written (two spellings that differ
\* in letter case are two addresses).
C18_OnePerAddress ==
  fpc = "post" =>
    /\ Range(recipients) = Range(CombinedAddresses)
    /\ \A a \in Range(CombinedAddresses) : CountIn(recipients, a) = 1

\* a member of two selected events who is also selected individually, and
\* two spellings of one address, in one send
C18_Witness ==
  /\ fpc = "post"
  /\ Len(memberResults) = 2
  /\ \E a \in Range(EmailsOf(selectedUsers)) :
       /\ a \in Range(EmailsOf(memberResults[1]))
       /\ a \in Range(EmailsOf(memberResults[2]))
       /\ CountIn(recipients, a) = 1
  /\ {"a@x.org", "A@x.org"} \subseteq Range(recipients)

\* some address of the to header, display names left aside, contains
\* "+<slug>@gmail.com"
ToAddressHasGmailAlias(m, organizationSlug) ==
  \E i \in DOMAIN m.to.objs : \E j \in DOMAIN m.to.objs[i].value :
    Includes(m.to.objs[i].value[j].address,
             <<"+">> \o organizationSlug \o <<"@", "gmail.com">>)

\* C31 as stated: a message of INBOX is in the 200 response exactly if some
\* recipient address contains "+<slug>@gmail.com"; a display name that
\* contains the pattern does not make the message relevant.
C31_AddressesOnly ==
  \A c \in DOMAIN cyc :
    (cyc[c].pc = "done" /\ cyc[c].response.status = 200) =>
      \A k \in DOMAIN store["INBOX"] :
        LET m == store["INBOX"][k]
        IN  (m.hasRaw /\ m.parses) =>
              (Listed(c, "INBOX", k)
                 <=> ToAddressHasGmailAlias(m, cyc[c].organizationSlug.value))

\* C32 as stated: of the messages of a 200 response the page shows as
\* outgoing only messages retrieved from the sent folder and as incoming
\* only messages retrieved from the received folder.
C32_FolderDecidesKind ==
  \A c \in DOMAIN cyc :
    (cyc[c].pc = "done" /\ cyc[c].response.status = 200) =>
      LET sentEmails == SentEmails(cyc[c].response.emails,
                                   cyc[c].organizationName.value)
          incomingEmails == IncomingEmails(cyc[c].response.emails,
                                           cyc[c].organizationSlug.value)
      IN  /\ \A i \in DOMAIN sentEmails : sentEmails[i].mailbox = "[Gmail]/Sent Mail"
          /\ \A i \in DOMAIN incomingEmails : incomingEmails[i].mailbox = "INBOX"

\* C33 as stated: the summary accounts for every distinct address of the
\* input, the empty address included.
C33_Original ==
  dpc = "returned" =>
    dresult.successCount + Len(dresult.failures) = Len(Dedup(Emails(allUsers)))

\* C33: the summary accounts exactly once for every distinct non-empty
\* address of the input, as a success or as a failure entry; an entry
\* without address is in neither, so the sum falls one short of the number
\* of distinct addresses when the input has such an entry.
C33_NonEmptyAccounted ==
  dpc = "returned" =>
    /\ dresult.kind = "summary"
    /\ dresult.successCount + Len(dresult.failures)
         = Len(SelectSeq(Dedup(Emails(allUsers)), NonEmpty))
    /\ \A i \in DOMAIN uniqueUsers :
         LET entries == {k \in DOMAIN dresult.failures :
                           dresult.failures[k].email = uniqueUsers[i].email}
         IN  IF uniqueUsers[i].email = ""
             THEN entries = {} /\ ~TaskOk(i)
             ELSE Cardinality(entries) = (IF TaskOk(i) THEN 0 ELSE 1)
    /\ dresult.successCount + Len(dresult.failures)
         = Len(Dedup(Emails(allUsers)))
             - (IF "" \in Range(Emails(allUsers)) THEN 1 ELSE 0)

\* three distinct entries, one of them without address: one success and
\* one failure are reported
C33_Witness ==
  /\ dpc = "returned"
  /\ Len(uniqueUsers) = 3
  /\ "" \in Range(Emails(allUsers))
  /\ dresult.successCount = 1
  /\ Len(dresult.failures) = 1

\* the row write of recipient i failed after the provider had accepted the
\* message
RowWriteFailed(i) ==
  sendOutcome[i] = "data" /\ insertOutcome[i] \in InsertResponses \ {"ok"}

\* C34 as stated: a recipient listed in the returned failures is one whose
\* message the provider did not accept.
C34_Original ==
  dpc = "returned" =>
    \A i \in DOMAIN uniqueUsers :
      (\E k \in DOMAIN dresult.failures :
         dresult.failures[k].email = uniqueUsers[i].email)
        => sendOutcome[i] # "data"

\* C34: a recipient is listed in the returned failures exactly if the
\* provider did not accept its message or the provider accepted it and the
\* row write failed; a recipient whose message was accepted and whose row
\* was written is counted in successCount and not listed.
C34_FailureMeansRefusedOrUnrecorded ==
  dpc = "returned" =>
    /\ dresult.kind = "summary"
    /\ \A i \in DOMAIN uniqueUsers :
         HasEmail(uniqueUsers[i]) =>
           ((\E k \in DOMAIN dresult.failures :
               dresult.failures[k].email = uniqueUsers[i].email)
              <=> (sendOutcome[i] \in SendResponses \ {"data"} \/ RowWriteFailed(i)))
    /\ dresult.successCount =
         Cardinality({i \in DOMAIN uniqueUsers :
                        sendOutcome[i] = "data" /\ ~RowWriteFailed(i)})

\* a recipient whose message the provider accepted is listed as a failure
\* because its row could not be written, next to a recipient counted as sent
C34_Witness ==
  /\ dpc = "returned"
  /\ \E i, j \in DOMAIN uniqueUsers :
       /\ sendOutcome[i] = "data" /\ insertOutcome[i] = "error"
       /\ \E k \in DOMAIN dresult.failures :
            /\ dresult.failures[k].email = uniqueUsers[i].email
            /\ dresult.failures[k].reason = "insert error"
       /\ TaskOk(j)
  /\ dresult.successCount = 1

\* C35 as stated: whatever the live set holds, no step of the attachment
\* loop of a relevant message leaves out a part; a part is missing from the
\* list only when its write failed.
C35_NoPartLeftOut ==
  [][\A c \in DOMAIN cyc : ~PartPassedOver(c)]_vars

\* C36 as stated: no step takes a name out of the live set, and every file
\* the process has written and added to the live set is still on disk: no
\* sweep has deleted it.
C36_LiveSetGrows == downloadedAttachments \subseteq downloadedAttachments'

C36_LiveFilesOnDisk == downloadedAttachments \subseteq files

C36_LiveFilesKept == [](C36_LiveFilesOnDisk) /\ [][C36_LiveSetGrows]_vars

(***************************************************************************)
(* Claims about the permission gate.                                       *)
(***************************************************************************)
\* every check a component has started has settled
AllSettled(c) ==
  checks[c] # <<>> /\ \A k \in DOMAIN checks[c] : checks[c][k].status # "pending"

\* the outcome of the check a component ran for the current pair, the last
\* run of its effect
CurrentOutcome(c) == checks[c][Len(checks[c])].status

\* C37 as stated: once all the checks a component has started have settled,
\* its flag says what the check for the current user and organization
\* returned: set exactly if that check returned true.
C37_CurrentPairWins ==
  \A c \in Components :
    AllSettled(c) => (hasPermission[c] = "true" <=> CurrentOutcome(c) = "true")

\* C38 as stated: a component renders its content only when the check that
\* settled last returned true and the user and the organization are present.
C38_FailsClosed ==
  \A c \in Components :
    Rendered(c) => (settled[c] = "true" /\ PairPresent(pair))

(***************************************************************************)
(* Claims about the sending flag of the form.                              *)
(***************************************************************************)
C39_FlagFollowsHandler ==
  /\ fpc \in {"members", "post"} => sending
  /\ fpc \in {"idle", "done"} => ~sending

C39_StartStep ==
  (fpc = "idle" /\ fpc' # "idle") =>
    IF ValidateForm
    THEN sending' /\ fpc' = "members"
    ELSE ~sending' /\ fpc' = "done" /\ alert' = "validation"

\* C39: the sending flag is set exactly while a send that passed validation
\* is under way (member lookups or request in flight) and is clear before
\* the send and after the handler has finished, whichever way it finished;
\* the step of a send that fails validation leaves it clear and ends the
\* handler.
C39_SendingBracketsHandler == [](C39_FlagFollowsHandler) /\ [][C39_StartStep]_vars

\* the handler has finished after a request that was posted and failed; the
\* flag is clear again
C39_Witness ==
  /\ fpc = "done"
  /\ alert = "failed"
  /\ recipients # <<>>
  /\ ~sending

====
